---- MODULE Spec2Model ----
(***************************************************************************)
(* Model of the Universal Tool Framework menu navigator:                   *)
(*   MenuController (menuStack), ApplicationController (main loop,         *)
(*   handleUserChoice, tool-package switch), UIHandler (interactive        *)
(*   picker, architecture picker) and ToolExecutor (path resolution and    *)
(*   foreground launch).                                                   *)
(***************************************************************************)
EXTENDS Integers, Sequences, FiniteSets, TLC

(***************************************************************************)
(* Bounds of the model                                                     *)
(***************************************************************************)
\* executeTool invocations followed in one behaviour
MaxInvocations == 2
\* entries of an architecture -> path mapping drawn for path resolution
MaxMapLen == 2

(***************************************************************************)
(* JavaScript values                                                       *)
(***************************************************************************)
\* the value `undefined` of a string-valued expression
Undefined == "<undefined>"

\* a string is truthy unless it is empty; undefined is falsy
Truthy(v) == v # Undefined /\ v # ""

\* a || b || c on string-or-undefined operands
Or3(a, b, c) == IF Truthy(a) THEN a ELSE IF Truthy(b) THEN b ELSE c

(***************************************************************************)
(* Architecture Resolver (systemUtils.js)                                  *)
(***************************************************************************)
\* The source literal is "Unknown Architecture" followed by a parenthesised
\* Chinese gloss; it is a tag distinct from every key a mapping declares.
UnknownArch == "Unknown Architecture"

HostArchStrings == {"x64", "amd64", "ia32", "arm64", "aarch64", "arm", "armv7l", "riscv64"}

\* mutation: an unrecognized host string is returned as it is
getSystemArchitectureRaw(arch) ==
  IF arch \in {"arm64", "aarch64"} THEN "ARM64"
  ELSE IF arch \in {"arm", "armv7l"} THEN "ARM32"
  ELSE IF arch \in {"ia32"} THEN "X86"
  ELSE IF arch \in {"x64", "amd64"} THEN "X86_64"
  ELSE arch

getSystemArchitecture(arch) ==
  IF arch \in {"arm64", "aarch64"} THEN "ARM64"
  ELSE IF arch \in {"arm", "armv7l"} THEN "ARM32"
  ELSE IF arch \in {"ia32"} THEN "X86"
  ELSE IF arch \in {"x64", "amd64"} THEN "X86_64"
  ELSE UnknownArch

(***************************************************************************)
(* Tool paths: a single string, or a mapping kept in declaration order     *)
(***************************************************************************)
StrPath(s) == [isMap |-> FALSE, str |-> s, map |-> <<>>]
MapPath(m) == [isMap |-> TRUE, str |-> "", map |-> m]
NoPath == StrPath(Undefined)

\* toolPath[key]
Lookup(m, key) ==
  IF \E i \in 1..Len(m) : m[i][1] = key
  THEN m[CHOOSE i \in 1..Len(m) : m[i][1] = key][2]
  ELSE Undefined

\* Object.values(toolPath)[0]
FirstValue(m) == IF Len(m) > 0 THEN m[1][2] ELSE Undefined

\* mutation: the X86_64 fallback is skipped
ResolvePathNoFallback(toolPath, architecture) ==
  IF toolPath.isMap
  THEN Or3(Lookup(toolPath.map, architecture), Undefined, FirstValue(toolPath.map))
  ELSE toolPath.str

\* ToolExecutor.executeTool, lines 28-36
ResolvePath(toolPath, architecture) ==
  IF toolPath.isMap
  THEN Or3(Lookup(toolPath.map, architecture),
           Lookup(toolPath.map, "X86_64"),
           FirstValue(toolPath.map))
  ELSE toolPath.str

(***************************************************************************)
(* Typed lines: sequences of characters                                    *)
(***************************************************************************)
Digits == {"0", "1", "2", "3", "4", "5", "6", "7", "8", "9"}
Blank == {" "}

DigitVal(c) ==
  CASE c = "0" -> 0 [] c = "1" -> 1 [] c = "2" -> 2 [] c = "3" -> 3
    [] c = "4" -> 4 [] c = "5" -> 5 [] c = "6" -> 6 [] c = "7" -> 7
    [] c = "8" -> 8 [] c = "9" -> 9

RECURSIVE TrimLeft(_)
TrimLeft(s) == IF s # <<>> /\ Head(s) \in Blank THEN TrimLeft(Tail(s)) ELSE s

RECURSIVE TrimRight(_)
TrimRight(s) ==
  IF s # <<>> /\ s[Len(s)] \in Blank THEN TrimRight(SubSeq(s, 1, Len(s) - 1)) ELSE s

\* String.prototype.trim
Trim(s) == TrimRight(TrimLeft(s))

LowerChar(c) == CASE c = "B" -> "b" [] c = "M" -> "m" [] c = "P" -> "p" [] c = "T" -> "t" [] OTHER -> c

\* String.prototype.toLowerCase
ToLower(s) == [i \in 1..Len(s) |-> LowerChar(s[i])]

RECURSIVE DigitPrefix(_)
DigitPrefix(s) ==
  IF s # <<>> /\ Head(s) \in Digits THEN <<Head(s)>> \o DigitPrefix(Tail(s)) ELSE <<>>

RECURSIVE DigitsValue(_)
DigitsValue(d) ==
  IF d = <<>> THEN 0 ELSE 10 * DigitsValue(SubSeq(d, 1, Len(d) - 1)) + DigitVal(d[Len(d)])

\* parseInt(s): leading blanks skipped, optional sign, longest digit prefix
ParseInt(s) ==
  LET t == TrimLeft(s)
      neg == t # <<>> /\ Head(t) = "-"
      u == IF t # <<>> /\ Head(t) \in {"-", "+"} THEN Tail(t) ELSE t
      d == DigitPrefix(u)
  IN IF d = <<>> THEN [nan |-> TRUE, val |-> 0]
     ELSE [nan |-> FALSE, val |-> IF neg THEN 0 - DigitsValue(d) ELSE DigitsValue(d)]

\* the lines an operator types
Lines ==
  { <<>>, <<" ">>, <<"b">>, <<"B">>, <<" ", "m">>, <<"p">>, <<"t">>,
    <<"a", "b", "c">>, <<"0">>, <<"1">>, <<"2">>, <<"3">>, <<"4">>, <<"5">>,
    <<"9">>, <<"1", "x">>, <<" ", "2", " ">> }

(***************************************************************************)
(* Menu trees (menu.json) and tool packages                                *)
(***************************************************************************)
Item(id, type, submenu, path) == [id |-> id, type |-> type, submenu |-> submenu, path |-> path]

\* the result null of getMenuItem
NullItem == Item(-1, "null", Undefined, NoPath)

Menu(items) == [defined |-> TRUE, items |-> items]

\* config.menu[menuId] of a menu id that the tree does not define
NoMenu == [defined |-> FALSE, items |-> <<>>]

MenuIds == {"main", "gpu", "deep", "empty", "ghost"}

\* a tree with three levels, an executable with per-architecture paths, an
\* item of an unknown type, an empty menu and a submenu item whose target
\* ("ghost") is not defined
TreeA ==
  [m \in MenuIds |->
    CASE m = "main" ->
           Menu(<< Item(1, "submenu", "gpu", NoPath),
                   Item(2, "executable", Undefined,
                        MapPath(<< <<"ARM64", "a">>, <<"X86_64", "b">> >>)),
                   Item(3, "submenu", "ghost", NoPath),
                   Item(4, "weird", Undefined, NoPath),
                   Item(5, "submenu", "empty", NoPath) >>)
      [] m = "gpu" ->
           Menu(<< Item(1, "executable", Undefined, StrPath("furmark")),
                   Item(2, "back", Undefined, NoPath),
                   Item(3, "main", Undefined, NoPath),
                   Item(4, "submenu", "deep", NoPath) >>)
      [] m = "deep" ->
           Menu(<< Item(1, "back", Undefined, NoPath),
                   Item(2, "main", Undefined, NoPath),
                   Item(0, "executable", Undefined, MapPath(<< <<"ARM64", "z">> >>)) >>)
      [] m = "empty" -> Menu(<< >>)
      [] OTHER -> NoMenu]

\* the tree of the end-to-end scenario
TreeB ==
  [m \in MenuIds |->
    CASE m = "main" -> Menu(<< Item(1, "submenu", "gpu", NoPath) >>)
      [] m = "gpu" ->
           Menu(<< Item(1, "executable", Undefined, StrPath("furmark")),
                   Item(2, "back", Undefined, NoPath) >>)
      [] OTHER -> NoMenu]

\* a tree whose second-level item list holds a null element after its first
\* item (menu.json: "items": [ {...}, null ])
TreeC ==
  [m \in MenuIds |->
    CASE m = "main" -> Menu(<< Item(1, "submenu", "gpu", NoPath) >>)
      [] m = "gpu" -> Menu(<< Item(1, "back", Undefined, NoPath), NullItem >>)
      [] OTHER -> NoMenu]

Option(id, value) == [id |-> id, value |-> value]

\* arch_picker.json of a package
ArchOptions == << Option(1, "X86_64"), Option(2, "ARM64"), Option(3, "X86") >>

\* A tool package directory: whether config/menu.json exists, whether it
\* parses, its menu tree, its settings (input_method with the num_input
\* default applied, arch_picker) and whether arch_picker.json can be read.
Package(valid, parses, tree, input, picker, archCfg) ==
  [valid |-> valid, parses |-> parses, tree |-> tree,
   input_method |-> input, arch_picker |-> picker, archCfg |-> archCfg]

PackagePaths == {"pkgA", "pkgB", "pkgC", "pkgD", "pkgE", "pkgCorrupt", "pkgNone"}

Packages ==
  [p \in PackagePaths |->
    CASE p = "pkgA" -> Package(TRUE, TRUE, TreeA, "arrow_input", TRUE, TRUE)
      [] p = "pkgB" -> Package(TRUE, TRUE, TreeB, "num_input", FALSE, TRUE)
      [] p = "pkgC" -> Package(TRUE, TRUE, TreeA, "num_input", TRUE, TRUE)
      [] p = "pkgD" -> Package(TRUE, TRUE, TreeA, "arrow_input", FALSE, FALSE)
      [] p = "pkgE" -> Package(TRUE, TRUE, TreeC, "arrow_input", FALSE, FALSE)
      [] p = "pkgCorrupt" -> Package(TRUE, FALSE, TreeB, "num_input", TRUE, FALSE)
      [] OTHER -> Package(FALSE, FALSE, TreeB, "num_input", TRUE, FALSE)]

\* packages the program can start with (initializeConfig succeeded)
LoadablePackages == {p \in PackagePaths : Packages[p].valid /\ Packages[p].parses}

\* tool_packages.json: the saved list, which may hold stale entries
SavedPackages == << "pkgA", "pkgB", "pkgC", "pkgD", "pkgE", "pkgCorrupt", "pkgNone" >>

(***************************************************************************)
(* MenuController (menuController.js)                                      *)
(***************************************************************************)
getCurrentMenuOf(stack) == stack[Len(stack)]

\* mutation: the submenu id is put under the current menu instead of on top
PushBelowTop(stack, menuId) ==
  SubSeq(stack, 1, Len(stack) - 1) \o << menuId, stack[Len(stack)] >>

setCurrentMenu(stack, menuId) == Append(stack, menuId)

\* mutation: the length guard is missing
goBackUnguarded(stack) == SubSeq(stack, 1, Len(stack) - 1)

goBack(stack) == IF Len(stack) > 1 THEN SubSeq(stack, 1, Len(stack) - 1) ELSE stack

\* mutation: home pops one level instead of resetting
goToMainMenuPop(stack) == goBack(stack)

goToMainMenu(stack) == << "main" >>

\* whether handleNavigationCommand handles the command (returns true)
IsNavigationCommand(command) == ToLower(command) \in { <<"b">>, <<"m">> }

\* stands for the TypeError of a property read on a null element
ThrownItem == Item(-3, "TypeError", Undefined, NoPath)

\* items.find(item => item.id === choice): the elements are visited in order
\* up to the first match; reading .id of a null element throws
FindItem(items, choice) ==
  LET stops == {i \in 1..Len(items) : items[i] = NullItem \/ items[i].id = choice}
  IN IF stops = {} THEN NullItem
     ELSE LET first == CHOOSE i \in stops : \A j \in stops : i <= j
          IN IF items[first] = NullItem THEN ThrownItem ELSE items[first]

\* mutation: an unmatched id falls back to the first item of the menu
ArrowGetMenuItemFirst(tree, menuId, choice) ==
  IF ~tree[menuId].defined THEN NullItem
  ELSE IF FindItem(tree[menuId].items, choice) = NullItem /\ Len(tree[menuId].items) > 0
          /\ tree[menuId].items[1] # NullItem
       THEN tree[menuId].items[1]
       ELSE FindItem(tree[menuId].items, choice)

\* ArrowMenuEngine.getMenuItem
ArrowGetMenuItem(tree, menuId, choice) ==
  IF ~tree[menuId].defined THEN NullItem ELSE FindItem(tree[menuId].items, choice)

\* NumMenuEngine.getMenuItem (menuEngine.js)
NumGetMenuItem(tree, menuId, choice) ==
  IF ~tree[menuId].defined THEN NullItem ELSE FindItem(tree[menuId].items, choice)

(***************************************************************************)
(* State                                                                   *)
(***************************************************************************)
VARIABLES
  menuStack,       \* MenuController.menuStack
  mcSettings,      \* MenuController.settingsConfig: a package, or "unset"
  config,          \* ApplicationController.config: package whose menu.json is loaded
  settingsConfig,  \* ApplicationController.settingsConfig: package whose settings are loaded
  configDir,       \* ApplicationController.configDir
  toolPackageDir,  \* ApplicationController.toolPackageDir
  hostArch,        \* os.arch()
  rawAvailable,    \* whether process.stdin.setRawMode(true) succeeds
  reqPath,         \* toolPath argument of a direct call of executeTool
  reqArch,         \* arch argument of a direct call of executeTool
  pc,              \* where the single thread of control is suspended
  report,          \* the last message printed since the menu was rendered
  answer,          \* the trimmed line handed to the continuation of rl.question
  userChoice,      \* the value selectWithArrowKeys resolved with
  pendingItem,     \* the menuItem under dispatch in handleUserChoice
  picker,          \* caller of the running selectWithArrowKeys
  selectedIndex,   \* selectedIndex of the running selectWithArrowKeys
  rawMode,         \* process.stdin raw mode
  listeners,       \* 'data' listeners registered on process.stdin
  child,           \* whether a spawned child is alive
  invocations,     \* number of executeTool calls so far
  lastInvocation,  \* resolved path, architecture and cwd of the executeTool
                   \* call of this loop iteration
  lastOp,          \* history: the command handled in this loop iteration
  lastChoice,      \* history: the id handed to handleUserChoice
  stackBefore,     \* history: menuStack when the command was read
  lastInput,       \* history: the operator's last keystroke or line at a
                   \* selection prompt, and the prompt it was given at
  unrendered       \* history: an input was rejected and the current menu has
                   \* not been rendered since

navVars == << menuStack, mcSettings >>
pkgVars == << config, settingsConfig, configDir, toolPackageDir >>
envVars == << hostArch, rawAvailable, reqPath, reqArch >>
\* locals of the suspended handlers: reset when the handler returns
locals == << answer, userChoice, pendingItem, picker, selectedIndex >>
termVars == << rawMode, listeners >>
execVars == << child, invocations, lastInvocation >>
hist == << lastOp, lastChoice, stackBefore >>
obs == << lastInput, unrendered >>
vars == << navVars, pkgVars, envVars, pc, report, locals, termVars, execVars, hist, obs >>

\* values of userChoice: a MenuItem id, a token ('q', 'm', 'p', 't') or null
IdChoice(i) == [kind |-> "id", id |-> i, tok |-> ""]
TokChoice(t) == [kind |-> "tok", id |-> 0, tok |-> t]
NullChoice == [kind |-> "null", id |-> 0, tok |-> ""]

\* !userChoice
Falsy(c) == c.kind = "null" \/ (c.kind = "id" /\ c.id = 0)

\* the operator's input: a keystroke of the interactive picker or a typed
\* line, given at the prompt of the menu ("menu"), of the architecture picker
\* ("arch") or of the tool-package selector ("pkg"); a line is typed at the
\* numeric prompt ("line") or at the raw-unavailable fallback ("fallback")
KeyInput(at, key) == [kind |-> "key", at |-> at, key |-> key, line |-> << >>]
LineInput(at, line) == [kind |-> "line", at |-> at, key |-> "", line |-> line]
FallbackInput(at, line) == [kind |-> "fallback", at |-> at, key |-> "", line |-> line]
NoInput == [kind |-> "none", at |-> "none", key |-> "", line |-> << >>]

NoInvocation == [path |-> Undefined, arch |-> Undefined, cwd |-> Undefined]

\* stands for a token handed to getMenuItem: strictly equal to no item id
NotAnId == -2

\* selectedIndex after arithmetic modulo an empty item list
NaNIndex == -1

\* os.arch() of the hosts the navigator is run on
Hosts == {"x64", "arm64", "riscv64"}

Settings == Packages[settingsConfig]
Tree == Packages[config].tree
getCurrentMenu == getCurrentMenuOf(menuStack)

\* mutation: the id is looked up in the root menu
getMenuItemMain(menuId, choice) ==
  IF mcSettings # "unset" /\ Packages[mcSettings].input_method = "arrow_input"
  THEN ArrowGetMenuItem(Tree, "main", choice)
  ELSE NumGetMenuItem(Tree, "main", choice)

\* MenuController.getMenuItem: the engine is chosen by the controller's own
\* settingsConfig, num_input when it was never set
getMenuItem(menuId, choice) ==
  IF mcSettings # "unset" /\ Packages[mcSettings].input_method = "arrow_input"
  THEN ArrowGetMenuItem(Tree, menuId, choice)
  ELSE NumGetMenuItem(Tree, menuId, choice)

\* the item list handed to the running selectWithArrowKeys
PickerItemCount ==
  CASE picker = "menu" -> Len(Tree[getCurrentMenu].items)
    [] picker = "arch" -> Len(ArchOptions)
    [] picker = "pkg" -> Len(SavedPackages) + 1
    [] OTHER -> 0

\* menuItems[selectedIndex].id
PickerItemId(i) ==
  CASE picker = "menu" -> Tree[getCurrentMenu].items[i + 1].id
    [] picker = "arch" -> ArchOptions[i + 1].id
    [] OTHER -> i + 1

Init ==
  /\ menuStack = << "main" >>
  /\ config \in LoadablePackages
  /\ settingsConfig = config
  /\ configDir = config
  /\ toolPackageDir = config
  /\ mcSettings = config
  /\ hostArch \in Hosts
  /\ rawAvailable \in BOOLEAN
  /\ reqPath = NoPath
  /\ reqArch = Undefined
  /\ pc = "loop"
  /\ report = "none"
  /\ answer = << >>
  /\ userChoice = NullChoice
  /\ pendingItem = NullItem
  /\ picker = "none"
  /\ selectedIndex = 0
  /\ rawMode = FALSE
  /\ listeners = 0
  /\ child = FALSE
  /\ invocations = 0
  /\ lastInvocation = NoInvocation
  /\ lastOp = "none"
  /\ lastChoice = 0
  /\ stackBefore = << >>
  /\ lastInput = NoInput
  /\ unrendered = FALSE

(***************************************************************************)
(* Calls made inside the handlers                                          *)
(***************************************************************************)
\* the locals of a handler that has returned
ResetLocals ==
  /\ answer' = << >>
  /\ userChoice' = NullChoice
  /\ pendingItem' = NullItem
  /\ picker' = "none"
  /\ selectedIndex' = 0

\* the handler returns (or continues) to the top of the while loop
Return == pc' = "loop" /\ ResetLocals

\* history: a command is taken up
Begin(op, choice) == lastOp' = op /\ lastChoice' = choice /\ stackBefore' = menuStack

\* history: the command taken up ends as `op`
End(op) == lastOp' = op /\ UNCHANGED << lastChoice, stackBefore >>

\* no picker is started
NoPicker ==
  /\ picker' = "none" /\ selectedIndex' = 0 /\ userChoice' = NullChoice
  /\ UNCHANGED termVars

\* UIHandler.selectWithArrowKeys up to its first suspension: raw mode is
\* acquired and onKeyPress registered, or the line fallback is prompted
StartPicker(who) ==
  /\ picker' = who
  /\ selectedIndex' = 0
  /\ userChoice' = NullChoice
  /\ IF rawAvailable
     THEN \* displayMenu renders the item list before the listener is set
          /\ rawMode' = TRUE /\ listeners' = listeners + 1 /\ pc' = "keys"
          /\ unrendered' = (who # "menu" /\ unrendered)
     ELSE \* the fallback returns before displayMenu is defined
          /\ rawMode' = rawMode /\ listeners' = listeners /\ pc' = "fallbackLine"
          /\ unrendered' = unrendered

\* displayMenu reads item.name of every element: a null element throws
RenderThrows(items) == \E i \in 1..Len(items) : items[i] = NullItem

\* UIHandler.selectWithArrowKeys when the first displayMenu throws inside the
\* promise executor: raw mode was acquired, the listener is not registered,
\* and the promise is rejected
StartPickerRenderFails ==
  /\ picker' = "none"
  /\ selectedIndex' = 0
  /\ userChoice' = NullChoice
  /\ rawMode' = TRUE
  /\ listeners' = listeners
  /\ unrendered' = unrendered

\* mutation: the child is spawned and not waited for
ExecuteToolDetached(toolPath, arch, cwd) ==
  LET architecture == IF Truthy(arch) THEN arch ELSE getSystemArchitecture(hostArch)
      resolvedPath == ResolvePath(toolPath, architecture)
  IN /\ invocations < MaxInvocations
     /\ invocations' = invocations + 1
     /\ lastInvocation' = [path |-> resolvedPath, arch |-> architecture, cwd |-> cwd]
     /\ IF Truthy(resolvedPath)
        THEN child' = TRUE /\ pc' = "ackReturn" /\ report' = "completed"
        ELSE child' = FALSE /\ pc' = "ackReturn" /\ report' = "spawnError"

\* ToolExecutor.executeTool up to its first suspension: the path is
\* resolved and spawned; spawn throws at once on an empty or undefined path
ExecuteTool(toolPath, arch, cwd) ==
  LET architecture == IF Truthy(arch) THEN arch ELSE getSystemArchitecture(hostArch)
      resolvedPath == ResolvePath(toolPath, architecture)
  IN /\ invocations < MaxInvocations
     /\ invocations' = invocations + 1
     /\ lastInvocation' = [path |-> resolvedPath, arch |-> architecture, cwd |-> cwd]
     /\ IF Truthy(resolvedPath)
        THEN child' = TRUE /\ pc' = "running" /\ report' = "running"
        ELSE child' = FALSE /\ pc' = "ackReturn" /\ report' = "spawnError"

\* UIHandler.architecturePicker up to its first suspension
ArchitecturePicker ==
  IF Settings.input_method = "arrow_input"
  THEN IF Packages[configDir].archCfg
       THEN StartPicker("arch") /\ report' = "none"
       ELSE \* arch_picker.json cannot be read: the error reaches the catch
            \* of the main loop
            pc' = "ack" /\ report' = "error" /\ NoPicker /\ UNCHANGED unrendered
  ELSE pc' = "archNumPrompt" /\ report' = "none" /\ NoPicker /\ UNCHANGED unrendered

\* mutation: the new MenuController keeps the stack of the old one
SwitchKeepsStack(packagePath, writeOk) ==
  IF ~Packages[packagePath].valid \/ ~writeOk
  THEN \* no config directory or menu.json, or config_path.json not writable
       /\ pc' = "loop" /\ report' = "switchFailed" /\ End("switchFailed")
       /\ UNCHANGED << navVars, pkgVars >>
  ELSE /\ configDir' = packagePath
       /\ toolPackageDir' = packagePath
       /\ IF ~Packages[packagePath].parses
          THEN \* new ConfigHandler throws: caught by the main loop
               /\ pc' = "ack" /\ report' = "error" /\ End("switchError")
               /\ UNCHANGED << navVars, config, settingsConfig >>
          ELSE /\ config' = packagePath
               /\ settingsConfig' = packagePath
               /\ menuStack' = menuStack
               /\ mcSettings' = "unset"
               /\ pc' = "loop" /\ report' = "switched" /\ End("switched")

\* mutation: the menu tree of the new package is not taken over
SwitchKeepsTree(packagePath, writeOk) ==
  IF ~Packages[packagePath].valid \/ ~writeOk
  THEN \* no config directory or menu.json, or config_path.json not writable
       /\ pc' = "loop" /\ report' = "switchFailed" /\ End("switchFailed")
       /\ UNCHANGED << navVars, pkgVars >>
  ELSE /\ configDir' = packagePath
       /\ toolPackageDir' = packagePath
       /\ IF ~Packages[packagePath].parses
          THEN \* new ConfigHandler throws: caught by the main loop
               /\ pc' = "ack" /\ report' = "error" /\ End("switchError")
               /\ UNCHANGED << navVars, config, settingsConfig >>
          ELSE /\ config' = config
               /\ settingsConfig' = packagePath
               /\ menuStack' = << "main" >>
               /\ mcSettings' = "unset"
               /\ pc' = "loop" /\ report' = "switched" /\ End("switched")

\* mutation: a rejected path still resets the navigation
SwitchFailureResets(packagePath, writeOk) ==
  IF ~Packages[packagePath].valid \/ ~writeOk
  THEN \* no config directory or menu.json, or config_path.json not writable
       /\ pc' = "loop" /\ report' = "switchFailed" /\ End("switchFailed")
       /\ menuStack' = << "main" >>
       /\ UNCHANGED << mcSettings, pkgVars >>
  ELSE /\ configDir' = packagePath
       /\ toolPackageDir' = packagePath
       /\ IF ~Packages[packagePath].parses
          THEN \* new ConfigHandler throws: caught by the main loop
               /\ pc' = "ack" /\ report' = "error" /\ End("switchError")
               /\ UNCHANGED << navVars, config, settingsConfig >>
          ELSE /\ config' = packagePath
               /\ settingsConfig' = packagePath
               /\ menuStack' = << "main" >>
               /\ mcSettings' = "unset"
               /\ pc' = "loop" /\ report' = "switched" /\ End("switched")

\* ApplicationController.switchToToolPackage followed by the `continue` of
\* the main loop
SwitchToToolPackage(packagePath, writeOk) ==
  IF ~Packages[packagePath].valid \/ ~writeOk
  THEN \* no config directory or menu.json, or config_path.json not writable
       /\ pc' = "loop" /\ report' = "switchFailed" /\ End("switchFailed")
       /\ UNCHANGED << navVars, pkgVars >>
  ELSE /\ configDir' = packagePath
       /\ toolPackageDir' = packagePath
       /\ IF ~Packages[packagePath].parses
          THEN \* new ConfigHandler throws: caught by the main loop
               /\ pc' = "ack" /\ report' = "error" /\ End("switchError")
               /\ UNCHANGED << navVars, config, settingsConfig >>
          ELSE /\ config' = packagePath
               /\ settingsConfig' = packagePath
               /\ menuStack' = << "main" >>
               /\ mcSettings' = "unset"
               /\ pc' = "loop" /\ report' = "switched" /\ End("switched")

\* ApplicationController.showToolPackageSelector up to its first suspension
ShowToolPackageSelector ==
  IF Settings.input_method = "arrow_input"
  THEN StartPicker("pkg")
  ELSE pc' = "pkgNumPrompt" /\ NoPicker /\ UNCHANGED unrendered

\* ApplicationController.handleUserChoice up to its return or its first
\* suspension
HandleUserChoice(choice) ==
  LET menuItem == getMenuItem(getCurrentMenu, choice)
  IN IF menuItem = ThrownItem
     THEN \* getMenuItem throws: caught by the main loop
          /\ Begin("dispatchError", choice)
          /\ pc' = "ack" /\ report' = "error"
          /\ pendingItem' = NullItem /\ NoPicker
          /\ UNCHANGED << menuStack, execVars, unrendered >>
     ELSE
     /\ Begin("dispatch", choice)
     /\ IF menuItem = NullItem
        THEN /\ pc' = "ack" /\ report' = "invalidSelection"
             /\ pendingItem' = NullItem /\ NoPicker
             /\ unrendered' = TRUE
             /\ UNCHANGED << menuStack, execVars >>
        ELSE CASE menuItem.type = "submenu" ->
                    /\ menuStack' = setCurrentMenu(menuStack, menuItem.submenu)
                    /\ pc' = "loop" /\ report' = "none"
                    /\ pendingItem' = NullItem /\ NoPicker
                    /\ UNCHANGED << execVars, unrendered >>
               [] menuItem.type = "executable" ->
                    /\ menuStack' = menuStack
                    /\ pendingItem' = menuItem
                    /\ IF Settings.arch_picker
                       THEN ArchitecturePicker /\ UNCHANGED execVars
                       ELSE /\ ExecuteTool(menuItem.path, getSystemArchitecture(hostArch),
                                           toolPackageDir)
                            /\ NoPicker /\ UNCHANGED unrendered
               [] menuItem.type = "back" ->
                    /\ menuStack' = goBack(menuStack)
                    /\ pc' = "loop" /\ report' = "none"
                    /\ pendingItem' = NullItem /\ NoPicker
                    /\ UNCHANGED << execVars, unrendered >>
               [] menuItem.type = "main" ->
                    /\ menuStack' = goToMainMenu(menuStack)
                    /\ pc' = "loop" /\ report' = "none"
                    /\ pendingItem' = NullItem /\ NoPicker
                    /\ UNCHANGED << execVars, unrendered >>
               [] OTHER ->
                    /\ pc' = "ack" /\ report' = "unknownType"
                    /\ pendingItem' = NullItem /\ NoPicker
                    /\ unrendered' = TRUE
                    /\ UNCHANGED << menuStack, execVars >>

(***************************************************************************)
(* The main loop, numeric input                                            *)
(***************************************************************************)
\* history: a new loop iteration starts with nothing handled yet
NewIteration ==
  /\ lastOp' = "none" /\ lastChoice' = 0 /\ stackBefore' = << >>
  /\ lastInput' = NoInput
  /\ lastInvocation' = NoInvocation
  /\ UNCHANGED << child, invocations >>

\* showCurrentMenu, num_input: the menu is rendered and a line is asked for
NumDisplay ==
  /\ pc = "loop"
  /\ Settings.input_method = "num_input"
  /\ pc' = "numPrompt"
  /\ report' = "none"
  /\ NewIteration
  /\ unrendered' = FALSE
  /\ UNCHANGED << navVars, pkgVars, envVars, locals, termVars >>

\* the callback of rl.question: the line is trimmed
NumRead ==
  /\ pc = "numPrompt"
  /\ \E line \in Lines : answer' = Trim(line) /\ lastInput' = LineInput("menu", line)
  /\ pc' = "numAnswer"
  /\ UNCHANGED unrendered
  /\ UNCHANGED << navVars, pkgVars, envVars, report, userChoice, pendingItem,
                  picker, selectedIndex, termVars, execVars, hist >>

\* mutation: 'b' is handled as 'm'
handleNavigationCommandHome(stack, command) ==
  IF ToLower(command) \in { << "b" >>, << "m" >> } THEN goToMainMenu(stack) ELSE stack

\* MenuController.handleNavigationCommand: the stack it leaves
handleNavigationCommand(stack, command) ==
  IF ToLower(command) = << "b" >>
  THEN (IF Len(stack) > 1 THEN goBack(stack) ELSE goToMainMenu(stack))
  ELSE IF ToLower(command) = << "m" >> THEN goToMainMenu(stack)
  ELSE stack

\* 'b' or 'm': handleNavigationCommand returned true
NumCommand ==
  /\ pc = "numAnswer"
  /\ IsNavigationCommand(answer)
  /\ menuStack' = handleNavigationCommand(menuStack, answer)
  /\ Begin(IF ToLower(answer) = << "b" >> THEN "cmdBack" ELSE "cmdHome", 0)
  /\ Return
  /\ UNCHANGED << mcSettings, pkgVars, envVars, report, termVars, execVars >>
  /\ UNCHANGED obs

\* 'p': the tool-package selector is shown
NumSwitch ==
  /\ pc = "numAnswer"
  /\ ~IsNavigationCommand(answer)
  /\ ToLower(answer) = << "p" >>
  /\ ShowToolPackageSelector
  /\ Begin("switch", 0)
  /\ answer' = << >>
  /\ UNCHANGED << navVars, pkgVars, envVars, report, pendingItem, execVars >>
  /\ UNCHANGED lastInput

\* an empty line, or a line parseInt makes NaN of
NumReject ==
  /\ pc = "numAnswer"
  /\ ~IsNavigationCommand(answer)
  /\ ToLower(answer) # << "p" >>
  /\ (answer = << >>) \/ ParseInt(answer).nan
  /\ report' = IF answer = << >> THEN "emptyInput" ELSE "notANumber"
  /\ pc' = "ack"
  /\ Begin("reject", 0)
  /\ answer' = << >>
  /\ UNCHANGED << navVars, pkgVars, envVars, userChoice, pendingItem,
                  picker, selectedIndex, termVars, execVars >>
  /\ unrendered' = TRUE
  /\ UNCHANGED lastInput

\* a number: handleUserChoice(parseInt(answer))
NumSelect ==
  /\ pc = "numAnswer"
  /\ ~IsNavigationCommand(answer)
  /\ ToLower(answer) # << "p" >>
  /\ answer # << >>
  /\ ~ParseInt(answer).nan
  /\ HandleUserChoice(ParseInt(answer).val)
  /\ answer' = << >>
  /\ UNCHANGED << mcSettings, pkgVars, envVars >>
  /\ UNCHANGED lastInput

\* UIHandler.waitForEnter resolved: back to the top of the loop
Ack ==
  /\ pc = "ack"
  /\ Return
  /\ UNCHANGED << navVars, pkgVars, envVars, report, termVars, execVars, hist >>
  /\ UNCHANGED obs

(***************************************************************************)
(* The main loop, interactive input                                        *)
(***************************************************************************)
\* showCurrentMenu, arrow_input: displayInteractiveMenu returns null at once
\* for a menu id the tree does not define, and starts the picker otherwise
ArrowDisplay ==
  /\ pc = "loop"
  /\ Settings.input_method = "arrow_input"
  /\ IF ~Tree[getCurrentMenu].defined
     THEN /\ pc' = "ack" /\ report' = "emptyInput" /\ NoPicker
          /\ Begin("reject", 0)
          /\ lastInput' = NoInput
          /\ unrendered' = TRUE
          /\ lastInvocation' = NoInvocation /\ UNCHANGED << child, invocations >>
     ELSE IF rawAvailable /\ RenderThrows(Tree[getCurrentMenu].items)
     THEN \* the rejection reaches the catch of the main loop
          /\ StartPickerRenderFails
          /\ pc' = "ack" /\ report' = "error"
          /\ Begin("renderError", 0)
          /\ lastInput' = NoInput
          /\ lastInvocation' = NoInvocation /\ UNCHANGED << child, invocations >>
     ELSE StartPicker("menu") /\ report' = "none" /\ NewIteration
  /\ UNCHANGED << navVars, pkgVars, envVars, answer, pendingItem >>

\* mutation: up stops at the first item instead of wrapping
KeyUpNoWrap ==
  /\ pc = "keys"
  /\ selectedIndex' =
       IF PickerItemCount = 0 \/ selectedIndex = NaNIndex THEN NaNIndex
       ELSE IF selectedIndex = 0 THEN 0 ELSE selectedIndex - 1
  /\ UNCHANGED << navVars, pkgVars, envVars, pc, report, answer, userChoice, pendingItem,
                  picker, termVars, execVars, hist >>
  /\ lastInput' = KeyInput(picker, "up")
  /\ unrendered' = (picker # "menu" /\ unrendered)

\* onKeyPress, up arrow
KeyUp ==
  /\ pc = "keys"
  /\ selectedIndex' =
       IF PickerItemCount = 0 \/ selectedIndex = NaNIndex THEN NaNIndex
       ELSE (selectedIndex - 1 + PickerItemCount) % PickerItemCount
  /\ UNCHANGED << navVars, pkgVars, envVars, pc, report, answer, userChoice, pendingItem,
                  picker, termVars, execVars, hist >>
  /\ lastInput' = KeyInput(picker, "up")
  /\ unrendered' = (picker # "menu" /\ unrendered)

\* onKeyPress, down arrow
KeyDown ==
  /\ pc = "keys"
  /\ selectedIndex' =
       IF PickerItemCount = 0 \/ selectedIndex = NaNIndex THEN NaNIndex
       ELSE (selectedIndex + 1) % PickerItemCount
  /\ UNCHANGED << navVars, pkgVars, envVars, pc, report, answer, userChoice, pendingItem,
                  picker, termVars, execVars, hist >>
  /\ lastInput' = KeyInput(picker, "down")
  /\ unrendered' = (picker # "menu" /\ unrendered)

\* mutation: the branch resolves without leaving raw mode
ResolveStillRaw(result) ==
  /\ rawMode' = rawMode
  /\ listeners' = listeners - 1
  /\ userChoice' = result
  /\ selectedIndex' = 0
  /\ pc' = "picked"

\* mutation: the branch resolves and leaves onKeyPress registered
ResolveKeepsListener(result) ==
  /\ rawMode' = FALSE
  /\ listeners' = listeners
  /\ userChoice' = result
  /\ selectedIndex' = 0
  /\ pc' = "picked"

\* the release every resolving branch of onKeyPress performs, then resolve
ReleaseAndResolve(result) ==
  /\ rawMode' = FALSE
  /\ listeners' = listeners - 1
  /\ userChoice' = result
  /\ selectedIndex' = 0
  /\ pc' = "picked"

\* onKeyPress, left arrow: resolve('q')
KeyLeft ==
  /\ pc = "keys"
  /\ ReleaseAndResolve(TokChoice("q"))
  /\ UNCHANGED << navVars, pkgVars, envVars, report, answer, pendingItem, picker,
                  execVars, hist >>
  /\ lastInput' = KeyInput(picker, "left")
  /\ UNCHANGED unrendered

\* onKeyPress, right arrow: resolve('m')
KeyRight ==
  /\ pc = "keys"
  /\ ReleaseAndResolve(TokChoice("m"))
  /\ UNCHANGED << navVars, pkgVars, envVars, report, answer, pendingItem, picker,
                  execVars, hist >>
  /\ lastInput' = KeyInput(picker, "right")
  /\ UNCHANGED unrendered

\* onKeyPress, 'p' or 'P': resolve('p')
KeyP ==
  /\ pc = "keys"
  /\ ReleaseAndResolve(TokChoice("p"))
  /\ UNCHANGED << navVars, pkgVars, envVars, report, answer, pendingItem, picker,
                  execVars, hist >>
  /\ lastInput' = KeyInput(picker, "p")
  /\ UNCHANGED unrendered

\* mutation: enter resolves with the id of the first item
KeyEnterFirst ==
  /\ pc = "keys"
  /\ IF PickerItemCount = 0 \/ selectedIndex = NaNIndex
     THEN /\ rawMode' = FALSE
          /\ listeners' = listeners - 1
          /\ pc' = "crashed"
          /\ report' = "uncaught"
          /\ UNCHANGED << userChoice, selectedIndex >>
     ELSE /\ ReleaseAndResolve(IdChoice(PickerItemId(0)))
          /\ UNCHANGED report
  /\ UNCHANGED << navVars, pkgVars, envVars, answer, pendingItem, picker, execVars, hist >>
  /\ lastInput' = KeyInput(picker, "enter")
  /\ UNCHANGED unrendered

\* onKeyPress, enter: resolve(menuItems[selectedIndex].id); with no item at
\* the index the property read throws inside the listener, after the release,
\* and nothing catches it
KeyEnter ==
  /\ pc = "keys"
  /\ IF PickerItemCount = 0 \/ selectedIndex = NaNIndex
     THEN /\ rawMode' = FALSE
          /\ listeners' = listeners - 1
          /\ pc' = "crashed"
          /\ report' = "uncaught"
          /\ UNCHANGED << userChoice, selectedIndex >>
     ELSE /\ ReleaseAndResolve(IdChoice(PickerItemId(selectedIndex)))
          /\ UNCHANGED report
  /\ UNCHANGED << navVars, pkgVars, envVars, answer, pendingItem, picker, execVars, hist >>
  /\ lastInput' = KeyInput(picker, "enter")
  /\ UNCHANGED unrendered

\* onKeyPress, any other keystroke
KeyOther ==
  /\ pc = "keys"
  /\ lastInput' = KeyInput(picker, "other")
  /\ UNCHANGED << navVars, pkgVars, envVars, pc, report, locals, termVars, execVars,
                  hist, unrendered >>

\* the callback of rl.question in the fallback of selectWithArrowKeys
FallbackRead ==
  /\ pc = "fallbackLine"
  /\ \E line \in Lines :
       /\ userChoice' =
            IF ParseInt(line).nan
            THEN (IF ToLower(line) = << "t" >> THEN TokChoice("t") ELSE NullChoice)
            ELSE IdChoice(ParseInt(line).val)
       /\ lastInput' = FallbackInput(picker, line)
  /\ pc' = "picked"
  /\ UNCHANGED unrendered
  /\ UNCHANGED << navVars, pkgVars, envVars, report, answer, pendingItem, picker,
                  selectedIndex, termVars, execVars, hist >>

\* showCurrentMenu after displayInteractiveCurrentMenu: 'q'
PickedMenuBack ==
  /\ pc = "picked" /\ picker = "menu"
  /\ userChoice = TokChoice("q")
  /\ menuStack' = goBack(menuStack)
  /\ Begin("cmdBack", 0)
  /\ Return
  /\ UNCHANGED << mcSettings, pkgVars, envVars, report, termVars, execVars >>
  /\ UNCHANGED obs

\* showCurrentMenu after displayInteractiveCurrentMenu: 'm'
PickedMenuHome ==
  /\ pc = "picked" /\ picker = "menu"
  /\ userChoice = TokChoice("m")
  /\ menuStack' = goToMainMenu(menuStack)
  /\ Begin("cmdHome", 0)
  /\ Return
  /\ UNCHANGED << mcSettings, pkgVars, envVars, report, termVars, execVars >>
  /\ UNCHANGED obs

\* showCurrentMenu after displayInteractiveCurrentMenu: 'p'
PickedMenuSwitch ==
  /\ pc = "picked" /\ picker = "menu"
  /\ userChoice = TokChoice("p")
  /\ ShowToolPackageSelector
  /\ Begin("switch", 0)
  /\ UNCHANGED << navVars, pkgVars, envVars, report, answer, pendingItem, execVars >>
  /\ UNCHANGED lastInput

\* showCurrentMenu after displayInteractiveCurrentMenu: !userChoice
PickedMenuReject ==
  /\ pc = "picked" /\ picker = "menu"
  /\ Falsy(userChoice)
  /\ report' = "emptyInput"
  /\ pc' = "ack"
  /\ Begin("reject", IF userChoice.kind = "id" THEN userChoice.id ELSE NotAnId)
  /\ NoPicker
  /\ UNCHANGED << navVars, pkgVars, envVars, answer, pendingItem, execVars >>
  /\ unrendered' = TRUE
  /\ UNCHANGED lastInput

\* showCurrentMenu after displayInteractiveCurrentMenu: handleUserChoice
PickedMenuSelect ==
  /\ pc = "picked" /\ picker = "menu"
  /\ userChoice \notin {TokChoice("q"), TokChoice("m"), TokChoice("p")}
  /\ ~Falsy(userChoice)
  /\ HandleUserChoice(IF userChoice.kind = "id" THEN userChoice.id ELSE NotAnId)
  /\ UNCHANGED << mcSettings, pkgVars, envVars, answer >>
  /\ UNCHANGED lastInput

(***************************************************************************)
(* The architecture picker (sub-flow of the executable dispatch)           *)
(***************************************************************************)
FindOption(id) ==
  IF \E i \in 1..Len(ArchOptions) : ArchOptions[i].id = id
  THEN ArchOptions[CHOOSE i \in 1..Len(ArchOptions) : ArchOptions[i].id = id].value
  ELSE Undefined

\* the first branch of architecturePickerWithArrows is entered
ArchFirstBranch(c) ==
  ~Falsy(c) /\ c \notin {TokChoice("q"), TokChoice("m"), TokChoice("t")}

\* mutation: whatever enters the first branch is returned as an option
ArchAnyResultChosen(c) == ArchFirstBranch(c)

\* whether architecturePickerWithArrows returns the value of an option
ArchOptionChosen(c) ==
  ArchFirstBranch(c) /\ c.kind = "id" /\ FindOption(c.id) # Undefined

\* architecturePickerWithArrows returned the value of the chosen option;
\* handleUserChoice goes on to executeTool
PickedArchOption ==
  /\ pc = "picked" /\ picker = "arch"
  /\ ArchOptionChosen(userChoice)
  /\ ExecuteTool(pendingItem.path, FindOption(userChoice.id), toolPackageDir)
  /\ NoPicker
  /\ UNCHANGED << navVars, pkgVars, envVars, answer, pendingItem, hist >>
  /\ UNCHANGED obs

\* mutation: the cancellation is handled as a back of the menu
PickedArchBackPops ==
  /\ pc = "picked" /\ picker = "arch"
  /\ userChoice = TokChoice("q")
  /\ menuStack' = goBack(menuStack)
  /\ End("archBack")
  /\ Return
  /\ UNCHANGED << mcSettings, pkgVars, envVars, report, termVars, execVars >>
  /\ UNCHANGED obs

\* 'q': BACK_TO_PARENT_MENU is thrown and handleUserChoice returns
PickedArchBack ==
  /\ pc = "picked" /\ picker = "arch"
  /\ userChoice = TokChoice("q")
  /\ End("archBack")
  /\ Return
  /\ UNCHANGED << navVars, pkgVars, envVars, report, termVars, execVars >>
  /\ UNCHANGED obs

\* mutation: the home cancellation returns without resetting the stack
PickedArchHomeKeeps ==
  /\ pc = "picked" /\ picker = "arch"
  /\ userChoice = TokChoice("m")
  /\ End("archHome")
  /\ Return
  /\ UNCHANGED << navVars, pkgVars, envVars, report, termVars, execVars >>
  /\ UNCHANGED obs

\* 'm': BACK_TO_MAIN_MENU is thrown and handleUserChoice resets the stack
PickedArchHome ==
  /\ pc = "picked" /\ picker = "arch"
  /\ userChoice = TokChoice("m")
  /\ menuStack' = goToMainMenu(menuStack)
  /\ End("archHome")
  /\ Return
  /\ UNCHANGED << mcSettings, pkgVars, envVars, report, termVars, execVars >>
  /\ UNCHANGED obs

\* no option was returned and nothing was thrown: the picker is shown again
PickedArchAgain ==
  /\ pc = "picked" /\ picker = "arch"
  /\ userChoice \notin {TokChoice("q"), TokChoice("m")}
  /\ ~ArchOptionChosen(userChoice)
  /\ StartPicker("arch")
  /\ UNCHANGED << navVars, pkgVars, envVars, report, answer, pendingItem, execVars, hist >>
  /\ UNCHANGED lastInput

\* UIHandler.architecturePickerWithNumbers: one typed line
ArchNumRead ==
  /\ pc = "archNumPrompt"
  /\ \E line \in Lines :
       LET a == ToLower(Trim(line))
           n == ParseInt(Trim(line))
       IN IF a = << "b" >>
          THEN /\ Return /\ End("archBack")
               /\ UNCHANGED << menuStack, report, execVars >>
          ELSE IF a = << "m" >>
          THEN /\ menuStack' = goToMainMenu(menuStack)
               /\ Return /\ End("archHome")
               /\ UNCHANGED << report, execVars >>
          ELSE IF ~n.nan /\ FindOption(n.val) # Undefined
          THEN /\ ExecuteTool(pendingItem.path, FindOption(n.val), toolPackageDir)
               /\ UNCHANGED << menuStack, locals, hist >>
          ELSE /\ pc' = "archNumPrompt" /\ report' = "invalidSelection"
               /\ UNCHANGED << menuStack, locals, execVars, hist >>
  /\ UNCHANGED << mcSettings, pkgVars, envVars, termVars >>
  /\ UNCHANGED obs

(***************************************************************************)
(* The Tool Executor after the spawn                                       *)
(***************************************************************************)
\* child.on('close'): the exit code is reported
ChildClose ==
  /\ pc = "running"
  /\ \E code \in {0, 1} : report' = IF code = 0 THEN "completed" ELSE "exitCode"
  /\ child' = FALSE
  /\ pc' = "ackReturn"
  /\ UNCHANGED << navVars, pkgVars, envVars, locals, termVars, invocations,
                  lastInvocation, hist >>
  /\ UNCHANGED obs

\* mutation: the rejection escapes executeTool and reaches the catch of the
\* main loop
ChildErrorPropagates ==
  /\ pc = "running"
  /\ report' = "error"
  /\ child' = FALSE
  /\ pc' = "ack"
  /\ UNCHANGED << navVars, pkgVars, envVars, locals, termVars, invocations,
                  lastInvocation, hist >>
  /\ UNCHANGED obs

\* child.on('error'): the rejection is caught inside executeTool
ChildError ==
  /\ pc = "running"
  /\ report' = "spawnError"
  /\ child' = FALSE
  /\ pc' = "ackReturn"
  /\ UNCHANGED << navVars, pkgVars, envVars, locals, termVars, invocations,
                  lastInvocation, hist >>
  /\ UNCHANGED obs

\* mutation: the executable case falls through to the back case
AckReturnFallsThrough ==
  /\ pc = "ackReturn"
  /\ menuStack' = goBack(menuStack)
  /\ End("launched")
  /\ Return
  /\ UNCHANGED << mcSettings, pkgVars, envVars, report, termVars, execVars >>
  /\ UNCHANGED obs

\* UIHandler.waitForEnterReturnMenu resolved: executeTool and handleUserChoice
\* return, the loop goes on
AckReturn ==
  /\ pc = "ackReturn"
  /\ End("launched")
  /\ Return
  /\ UNCHANGED << navVars, pkgVars, envVars, report, termVars, execVars >>
  /\ UNCHANGED obs

(***************************************************************************)
(* The tool-package selector                                               *)
(***************************************************************************)
\* showToolPackageSelectorWithArrows returned null ('q', 'm', or a result
\* that is the id of no entry): the loop continues
PickedPkgCancel ==
  /\ pc = "picked" /\ picker = "pkg"
  /\ ~(userChoice.kind = "id" /\ userChoice.id \in 1..(Len(SavedPackages) + 1))
  /\ End("switchCancel")
  /\ Return
  /\ UNCHANGED << navVars, pkgVars, envVars, report, termVars, execVars >>
  /\ UNCHANGED obs

\* a saved package was chosen: switchToToolPackage(selectedItem.path)
PickedPkgSaved ==
  /\ pc = "picked" /\ picker = "pkg"
  /\ userChoice.kind = "id" /\ userChoice.id \in 1..Len(SavedPackages)
  /\ \E writeOk \in BOOLEAN : SwitchToToolPackage(SavedPackages[userChoice.id], writeOk)
  /\ ResetLocals
  /\ UNCHANGED << envVars, termVars, execVars >>
  /\ UNCHANGED obs

\* "add a tool package" was chosen: promptForConfigPath
PickedPkgAdd ==
  /\ pc = "picked" /\ picker = "pkg"
  /\ userChoice = IdChoice(Len(SavedPackages) + 1)
  /\ pc' = "pkgPathPrompt"
  /\ ResetLocals
  /\ UNCHANGED << navVars, pkgVars, envVars, report, termVars, execVars, hist >>
  /\ UNCHANGED obs

\* showToolPackageSelectorWithNumbers: one typed line
PkgNumRead ==
  /\ pc = "pkgNumPrompt"
  /\ \E line \in Lines, writeOk \in BOOLEAN :
       LET choice == ParseInt(Trim(line))
       IN IF ~choice.nan /\ choice.val = Len(SavedPackages) + 1
          THEN /\ pc' = "pkgPathPrompt"
               /\ UNCHANGED << navVars, pkgVars, report, hist >>
          ELSE IF ~choice.nan /\ choice.val > 0 /\ choice.val <= Len(SavedPackages)
          THEN SwitchToToolPackage(SavedPackages[choice.val], writeOk)
          ELSE /\ pc' = "ack" /\ report' = "invalidSelection" /\ End("switchCancel")
               /\ UNCHANGED << navVars, pkgVars >>
  /\ ResetLocals
  /\ UNCHANGED << envVars, termVars, execVars >>
  /\ UNCHANGED obs

\* promptForConfigPath: a path without config/menu.json is asked for again;
\* an accepted path is returned and switched to
PkgPathRead ==
  /\ pc = "pkgPathPrompt"
  /\ \E path \in PackagePaths, writeOk \in BOOLEAN :
       IF ~Packages[path].valid
       THEN /\ pc' = "pkgPathPrompt" /\ report' = "badPath"
            /\ UNCHANGED << navVars, pkgVars, hist >>
       ELSE SwitchToToolPackage(path, writeOk)
  /\ ResetLocals
  /\ UNCHANGED << envVars, termVars, execVars >>
  /\ UNCHANGED obs

(***************************************************************************)
(* Specification                                                           *)
(***************************************************************************)
Next ==
  \/ NumDisplay \/ NumRead \/ NumCommand \/ NumSwitch \/ NumReject \/ NumSelect
  \/ Ack
  \/ ArrowDisplay \/ KeyUp \/ KeyDown \/ KeyLeft \/ KeyRight \/ KeyP \/ KeyEnter
  \/ KeyOther \/ FallbackRead
  \/ PickedMenuBack \/ PickedMenuHome \/ PickedMenuSwitch \/ PickedMenuReject
  \/ PickedMenuSelect
  \/ PickedArchOption \/ PickedArchBack \/ PickedArchHome \/ PickedArchAgain
  \/ ArchNumRead
  \/ ChildClose \/ ChildError \/ AckReturn
  \/ PickedPkgCancel \/ PickedPkgSaved \/ PickedPkgAdd \/ PkgNumRead \/ PkgPathRead

Spec == Init /\ [][Next]_vars

(***************************************************************************)
(* Direct calls of ToolExecutor.executeTool on drawn arguments             *)
(***************************************************************************)
Tags == {"X86_64", "X86", "ARM64", "ARM32", UnknownArch}

\* keys and values of the drawn architecture -> path mappings
MapTags == {"X86_64", "X86", "ARM64", "ARM32"}
PathStrings == {"", "a", "b"}

Distinct(m) == \A i, j \in 1..Len(m) : i # j => m[i][1] # m[j][1]

Mappings ==
  UNION { {m \in [1..n -> MapTags \X PathStrings] : Distinct(m)} : n \in 0..MaxMapLen }

PathInputs == {StrPath(v) : v \in PathStrings} \cup {MapPath(m) : m \in Mappings}

ResolveInit ==
  /\ menuStack = << "main" >>
  /\ config = "pkgB" /\ settingsConfig = "pkgB" /\ configDir = "pkgB"
  /\ toolPackageDir = "pkgB" /\ mcSettings = "pkgB"
  /\ hostArch = "x64"
  /\ rawAvailable = TRUE
  /\ reqPath \in PathInputs
  /\ reqArch \in Tags
  /\ pc = "call"
  /\ report = "none"
  /\ answer = << >>
  /\ userChoice = NullChoice
  /\ pendingItem = NullItem
  /\ picker = "none"
  /\ selectedIndex = 0
  /\ rawMode = FALSE
  /\ listeners = 0
  /\ child = FALSE
  /\ invocations = 0
  /\ lastInvocation = NoInvocation
  /\ lastOp = "none"
  /\ lastChoice = 0
  /\ stackBefore = << >>
  /\ lastInput = NoInput
  /\ unrendered = FALSE

\* executeTool(reqPath, reqArch, toolPackageDir)
ResolveCall ==
  /\ pc = "call"
  /\ ExecuteTool(reqPath, reqArch, toolPackageDir)
  /\ UNCHANGED << navVars, pkgVars, envVars, locals, termVars, hist >>
  /\ UNCHANGED obs

ResolveNext == ResolveCall \/ ChildClose \/ ChildError

SpecResolve == ResolveInit /\ [][ResolveNext]_vars

(***************************************************************************)
(* Calls of ToolExecutor.executeTool with no architecture given, on every  *)
(* host: the tag is the Architecture Resolver's                            *)
(***************************************************************************)
ArchInit ==
  /\ menuStack = << "main" >>
  /\ config = "pkgB" /\ settingsConfig = "pkgB" /\ configDir = "pkgB"
  /\ toolPackageDir = "pkgB" /\ mcSettings = "pkgB"
  /\ hostArch \in HostArchStrings
  /\ rawAvailable = TRUE
  /\ reqPath \in PathInputs
  /\ reqArch = Undefined
  /\ pc = "call"
  /\ report = "none"
  /\ answer = << >>
  /\ userChoice = NullChoice
  /\ pendingItem = NullItem
  /\ picker = "none"
  /\ selectedIndex = 0
  /\ rawMode = FALSE
  /\ listeners = 0
  /\ child = FALSE
  /\ invocations = 0
  /\ lastInvocation = NoInvocation
  /\ lastOp = "none"
  /\ lastChoice = 0
  /\ stackBefore = << >>
  /\ lastInput = NoInput
  /\ unrendered = FALSE

SpecArch == ArchInit /\ [][ResolveNext]_vars

(***************************************************************************)
(* Properties                                                              *)
(***************************************************************************)
\* the item of the menu on top of stackBefore that lastChoice selects, read
\* from the menu tree itself
ItemsBefore == Tree[stackBefore[Len(stackBefore)]].items

MatchesBefore == {i \in 1..Len(ItemsBefore) : ItemsBefore[i].id = lastChoice}

DispatchedItem ==
  ItemsBefore[CHOOSE i \in MatchesBefore : \A j \in MatchesBefore : i <= j]

DispatchedType == IF MatchesBefore = {} THEN "none" ELSE DispatchedItem.type

Dispatched == lastOp = "dispatch"

PopOne(stack) == [i \in 1..(Len(stack) - 1) |-> stack[i]]

\* C1: after any sequence of navigator operations the NavigationStack is
\* non-empty and its bottom element is the root menu id "main".
C1_StackRooted == Len(menuStack) >= 1 /\ menuStack[1] = "main"

\* C1 witness: a package was switched to, a third-level menu entered and a
\* tool launched
C1_Witness ==
  mcSettings = "unset" /\ Len(menuStack) >= 3 /\ invocations >= 1 /\ pc = "loop"

\* a back was handled: the command 'b', the left-arrow result, or the
\* dispatch of a back-type item
BackHandled == lastOp = "cmdBack" \/ (Dispatched /\ DispatchedType = "back")

\* C2: a back at depth >= 2 removes exactly the top element and leaves the
\* lower elements unchanged; at depth 1 it leaves the stack as it was.
C2_BackPopsOne ==
  BackHandled =>
    menuStack = (IF Len(stackBefore) >= 2 THEN PopOne(stackBefore) ELSE stackBefore)

\* C2 witness: the back command was handled at depth 3
C2_Witness == lastOp = "cmdBack" /\ Len(stackBefore) >= 3 /\ Len(menuStack) = 2

\* a home was handled: the command 'm', the right-arrow result, or the
\* dispatch of a main-type item
HomeHandled == lastOp = "cmdHome" \/ (Dispatched /\ DispatchedType = "main")

\* C3: home from any depth sets the stack to exactly ["main"].
C3_HomeResets == HomeHandled => menuStack = << "main" >>

\* C3 witness: a main-type item was dispatched at depth 3
C3_Witness == Dispatched /\ DispatchedType = "main" /\ Len(stackBefore) >= 3

\* C4: dispatching a submenu-type item pushes the item's submenu id: the
\* stack grows by one, the new top is that id, the previous elements are
\* unchanged.
C4_SubmenuPushes ==
  (Dispatched /\ DispatchedType = "submenu") =>
    /\ Len(menuStack) = Len(stackBefore) + 1
    /\ menuStack[Len(menuStack)] = DispatchedItem.submenu
    /\ \A i \in 1..Len(stackBefore) : menuStack[i] = stackBefore[i]

\* C4 witness: a submenu item was dispatched from a second-level menu
C4_Witness ==
  Dispatched /\ DispatchedType = "submenu" /\ Len(stackBefore) >= 2 /\ Len(menuStack) = 3

\* the Tool Executor was invoked for the dispatch at hand
Launching == Dispatched /\ pc \in {"running", "ackReturn"}

\* C5: dispatching an executable-type item leaves the NavigationStack
\* unchanged whatever the outcome of the launch (exit code 0, non-zero exit
\* code, failure to spawn).
C5_ExecutableKeepsStack ==
  (Launching \/ lastOp = "launched") =>
    /\ DispatchedType = "executable"
    /\ menuStack = stackBefore
    /\ report \in {"running", "completed", "exitCode", "spawnError"}

\* C5 witness: a launch from a submenu ended in a spawn failure and control
\* is back in the loop
C5_Witness ==
  lastOp = "launched" /\ report = "spawnError" /\ pc = "loop" /\ Len(menuStack) >= 2

\* the id handed to handleUserChoice selects no item of the current menu,
\* or an item of none of the four types
InvalidSelected ==
  Dispatched /\ DispatchedType \notin {"submenu", "executable", "back", "main"}

\* C6: selecting an id that matches no item of the current menu (or an item
\* of an unknown type) is reported and changes nothing: the stack is as
\* before, no tool is launched, and the navigator goes on to prompt again.
C6_InvalidSelectionNoChange ==
  InvalidSelected =>
    /\ menuStack = stackBefore
    /\ lastInvocation = NoInvocation /\ ~child
    /\ report \in {"invalidSelection", "unknownType"}
    /\ pc \in {"ack", "loop"}

\* C6 witness: an id without item was selected in a submenu under the
\* interactive strategy, and acknowledged
C6_Witness ==
  /\ InvalidSelected /\ DispatchedType = "none" /\ pc = "loop"
  /\ Len(menuStack) >= 2 /\ Settings.input_method = "arrow_input"

\* a submenu-type item was selected whose submenu id the tree does not define
MissingSubmenuSelected ==
  Dispatched /\ DispatchedType = "submenu" /\ ~Tree[DispatchedItem.submenu].defined

\* C7: selecting a submenu-type item whose submenu id does not exist in the
\* Menu Tree leaves the NavigationStack unchanged (the id is not pushed).
C7_MissingSubmenuNotPushed == MissingSubmenuSelected => menuStack = stackBefore

\* C7 witness of the divergence: the undefined id is on top of the stack
C7_MissingSubmenuPushed ==
  MissingSubmenuSelected /\ menuStack = Append(stackBefore, DispatchedItem.submenu)

\* the entries of a mapping, read without the || chain
HasEntry(m, tag) == \E i \in 1..Len(m) : m[i][1] = tag
EntryOf(m, tag) == m[CHOOSE i \in 1..Len(m) : m[i][1] = tag][2]
HasNonEmptyEntry(m, tag) == \E i \in 1..Len(m) : m[i][1] = tag /\ m[i][2] # ""
FirstDeclared(m) == IF Len(m) = 0 THEN Undefined ELSE m[1][2]

\* the resolution as claimed: requested tag, else X86_64, else first declared
ClaimedPath(p, tag) ==
  IF ~p.isMap THEN p.str
  ELSE IF HasEntry(p.map, tag) THEN EntryOf(p.map, tag)
  ELSE IF HasEntry(p.map, "X86_64") THEN EntryOf(p.map, "X86_64")
  ELSE FirstDeclared(p.map)

\* the same with an empty entry counted as absent in the first two steps
NonEmptyPriorityPath(p, tag) ==
  IF ~p.isMap THEN p.str
  ELSE IF HasNonEmptyEntry(p.map, tag) THEN EntryOf(p.map, tag)
  ELSE IF HasNonEmptyEntry(p.map, "X86_64") THEN EntryOf(p.map, "X86_64")
  ELSE FirstDeclared(p.map)

Called == pc # "call" /\ lastInvocation # NoInvocation

\* C8 as claimed: a single-string path is used verbatim; for a mapping the
\* resolved path is the entry for the requested tag if the mapping has one,
\* otherwise the entry for X86_64 if it has one, otherwise the first-declared
\* entry.
C8_ResolveAsClaimed == Called => lastInvocation.path = ClaimedPath(reqPath, reqArch)

\* C8 amended: a single-string path is used verbatim; for a mapping the
\* resolved path is the entry for the requested tag if the mapping has a
\* non-empty one, otherwise the entry for X86_64 if it has a non-empty one,
\* otherwise the first-declared entry.
C8_ResolvePriority ==
  Called =>
    /\ lastInvocation.path = NonEmptyPriorityPath(reqPath, reqArch)
    /\ lastInvocation.arch = reqArch

\* C8 witness: {ARM64: "a", X86_64: "b"} requested with X86 was resolved to
\* "b" by the X86_64 fallback
C8_Witness ==
  /\ Called
  /\ reqPath = MapPath(<< << "ARM64", "a" >>, << "X86_64", "b" >> >>)
  /\ reqArch = "X86"
  /\ lastInvocation.path = "b"

\* C9: when the operator chooses back in the architecture picker, the
\* NavigationStack is what it was when the item was selected, the Tool
\* Executor is not invoked, and control is back at the prompt of the calling
\* menu.
C9_PickerBackKeepsStack ==
  lastOp = "archBack" =>
    /\ DispatchedType = "executable"
    /\ menuStack = stackBefore
    /\ lastInvocation = NoInvocation /\ ~child
    /\ pc = "loop"

\* C9 witness: the interactive picker was left with back from a submenu
C9_Witness ==
  lastOp = "archBack" /\ Settings.input_method = "arrow_input" /\ Len(menuStack) >= 2

\* C10: when the operator chooses home in the architecture picker, the
\* NavigationStack becomes exactly ["main"] and the Tool Executor is not
\* invoked for that dispatch.
C10_PickerHomeResets ==
  lastOp = "archHome" =>
    /\ menuStack = << "main" >>
    /\ lastInvocation = NoInvocation /\ ~child

\* C10 witness: the interactive picker was left with home from a submenu
C10_Witness ==
  lastOp = "archHome" /\ Settings.input_method = "arrow_input" /\ Len(stackBefore) >= 2

\* C11: whenever the interactive picker delivers a result to its caller
\* (left arrow, right arrow, 'p' or enter), raw keystroke capture is already
\* off and the picker's keystroke listener is detached.
C11_ResultAfterRelease == pc = "picked" => (~rawMode /\ listeners = 0)

\* C11 witness: 'p' was pressed in the picker of the menu and 'p' delivered
C11_Witness ==
  pc = "picked" /\ lastInput = KeyInput("menu", "p") /\ userChoice = TokChoice("p")

\* a component other than the interactive picker reads standard input: a line
\* prompt, the press-Enter acknowledgement, or a running child
OtherReaderOfStdin ==
  pc \in {"numPrompt", "fallbackLine", "ack", "ackReturn", "running",
          "archNumPrompt", "pkgNumPrompt", "pkgPathPrompt"}

\* C12: in every reachable state in which a component other than the
\* interactive picker reads standard input, raw mode is off, also after an
\* error raised while the picker was handling a keystroke or rendering.
C12_RawOffOutsidePicker == OtherReaderOfStdin => ~rawMode

\* C12, the divergence: the acknowledgement of a rendering error is read
\* with raw mode on
C12_AckInRawMode == pc = "ack" /\ lastOp = "renderError" /\ rawMode

\* C13: the cursor of the interactive picker starts at index 0 and, for a
\* list of n >= 1 items, stays in 0..n-1 under up and down keystrokes: up
\* from 0 moves to n-1, down from n-1 moves to 0, otherwise up decrements and
\* down increments by one.
C13_CursorWraps ==
  /\ [](pc = "keys" /\ PickerItemCount >= 1 => selectedIndex \in 0..(PickerItemCount - 1))
  /\ [][pc # "keys" /\ pc' = "keys" => selectedIndex' = 0]_vars
  /\ [][(pc = "keys" /\ PickerItemCount >= 1 /\ lastInput'.key = "up") =>
          selectedIndex' = (IF selectedIndex = 0 THEN PickerItemCount - 1
                            ELSE selectedIndex - 1)]_vars
  /\ [][(pc = "keys" /\ PickerItemCount >= 1 /\ lastInput'.key = "down") =>
          selectedIndex' = (IF selectedIndex = PickerItemCount - 1 THEN 0
                            ELSE selectedIndex + 1)]_vars

\* C13 witness: in a list of 3 items, down was pressed on the last item and
\* the cursor is back at index 0
C13_Witness ==
  /\ pc = "keys" /\ picker = "arch" /\ PickerItemCount = 3
  /\ lastInput = KeyInput("arch", "down") /\ selectedIndex = 0

\* C14: in the interactive picker, left arrow emits back ('q'), right arrow
\* emits home ('m'), 'p' emits switch-package ('p'), enter emits the id of
\* the item at the cursor; any other keystroke emits nothing and leaves the
\* cursor and the NavigationStack unchanged.
C14_KeysEmit ==
  [][pc = "keys" =>
       /\ lastInput'.key = "left" => (pc' = "picked" /\ userChoice' = TokChoice("q"))
       /\ lastInput'.key = "right" => (pc' = "picked" /\ userChoice' = TokChoice("m"))
       /\ lastInput'.key = "p" => (pc' = "picked" /\ userChoice' = TokChoice("p"))
       /\ (lastInput'.key = "enter" /\ selectedIndex \in 0..(PickerItemCount - 1)) =>
            (pc' = "picked" /\ userChoice' = IdChoice(PickerItemId(selectedIndex)))
       /\ lastInput'.key = "other" =>
            (pc' = "keys" /\ UNCHANGED << selectedIndex, menuStack, userChoice >>)
       /\ lastInput'.key \in {"left", "right", "p", "enter", "other"} =>
            UNCHANGED menuStack]_vars

\* C14 witness: enter on the fourth item of a submenu delivered its id
C14_Witness ==
  /\ pc = "picked" /\ picker = "menu" /\ Len(menuStack) >= 2
  /\ lastInput = KeyInput("menu", "enter") /\ userChoice = IdChoice(4)

\* a line that is an integer: an optional sign and decimal digits only
StrictInteger(s) ==
  LET u == IF s # << >> /\ s[1] \in {"-", "+"} THEN Tail(s) ELSE s
  IN u # << >> /\ \A i \in 1..Len(u) : u[i] \in Digits

\* the line typed at the numeric prompt of the menu was taken up
NumLineHandled == lastInput.kind = "line" /\ lastInput.at = "menu" /\ lastOp # "none"

NothingChanged == menuStack = stackBefore /\ lastInvocation = NoInvocation /\ ~child

\* C15: numeric strategy: after trimming, b, m and p are handled as global
\* commands before any numeric parsing; a blank line is rejected as
\* EmptyInput; a line that is not an integer is rejected as NotANumber; an
\* integer with no matching item in the current menu is rejected as
\* InvalidSelection; no rejection changes the NavigationStack or launches a
\* tool.
C15_NumericRejections ==
  NumLineHandled =>
    LET t == Trim(lastInput.line)
    IN CASE ToLower(t) = << "b" >> -> lastOp = "cmdBack"
         [] ToLower(t) = << "m" >> -> lastOp = "cmdHome"
         [] ToLower(t) = << "p" >> ->
              lastOp \in {"switch", "switched", "switchFailed", "switchError", "switchCancel"}
         [] t = << >> -> lastOp = "reject" /\ report = "emptyInput" /\ NothingChanged
         [] t # << >> /\ ToLower(t) \notin {<< "b" >>, << "m" >>, << "p" >>}
              /\ ~StrictInteger(t) ->
              lastOp = "reject" /\ report = "notANumber" /\ NothingChanged
         [] OTHER ->
              (lastOp = "dispatch" /\ DispatchedType = "none") =>
                (report = "invalidSelection" /\ NothingChanged)

\* C15, the divergence: the line "1x" was dispatched as the selection 1
C15_PrefixDispatched ==
  /\ NumLineHandled /\ lastInput.line = << "1", "x" >>
  /\ lastOp = "dispatch" /\ lastChoice = 1 /\ menuStack # stackBefore

\* back, or home, was given at a selection prompt of the menu and taken up
BackGiven ==
  /\ lastInput.at = "menu" /\ lastOp # "none"
  /\ \/ lastInput.kind = "key" /\ lastInput.key = "left"
     \/ lastInput.kind \in {"line", "fallback"} /\ ToLower(Trim(lastInput.line)) = << "b" >>

HomeGiven ==
  /\ lastInput.at = "menu" /\ lastOp # "none"
  /\ \/ lastInput.kind = "key" /\ lastInput.key = "right"
     \/ lastInput.kind \in {"line", "fallback"} /\ ToLower(Trim(lastInput.line)) = << "m" >>

\* C16: at every prompt for a selection, in either input mode, back and home
\* are recognized and take effect whatever the current menu holds, also in
\* the raw-unavailable fallback of the interactive strategy.
C16_GlobalCommandsEverywhere ==
  /\ BackGiven =>
       menuStack = (IF Len(stackBefore) >= 2 THEN PopOne(stackBefore) ELSE stackBefore)
  /\ HomeGiven => menuStack = << "main" >>

\* C16, the divergence: 'b' typed at the fallback prompt of a submenu was
\* rejected as empty input and the stack kept
C16_FallbackBackRejected ==
  /\ BackGiven /\ lastInput.kind = "fallback" /\ lastOp = "reject"
  /\ Len(stackBefore) >= 2 /\ menuStack = stackBefore

\* C17: when raw keystroke capture cannot be enabled the interactive strategy
\* reads one line and returns the integer if the line is an integer, the
\* token 't' if the line is 't', and otherwise a rejected result, which makes
\* the caller report and prompt again.
C17_FallbackResult ==
  /\ (pc = "picked" /\ lastInput.kind = "fallback") =>
       userChoice =
         (IF StrictInteger(Trim(lastInput.line))
          THEN IdChoice(DigitsValue(Trim(lastInput.line)))
          ELSE IF ToLower(lastInput.line) = << "t" >> THEN TokChoice("t")
          ELSE NullChoice)
  /\ (pc = "ack" /\ lastInput.kind = "fallback" /\ lastInput.at = "menu"
        /\ lastOp = "reject") => report = "emptyInput"

\* C17, the divergence: the fallback returned 1 for the line "1x"
C17_FallbackPrefixAccepted ==
  /\ pc = "picked" /\ lastInput.kind = "fallback"
  /\ lastInput.line = << "1", "x" >> /\ userChoice = IdChoice(1)

\* a selection prompt of the menu is open
AtMenuPrompt == pc = "numPrompt" \/ (pc \in {"keys", "fallbackLine"} /\ picker = "menu")

\* C18: in both strategies the current menu is rendered again between a
\* rejected input and the next input prompt, also in the raw-unavailable
\* fallback of the interactive strategy.
C18_RenderBeforePrompt == AtMenuPrompt => ~unrendered

\* C18, the divergence: the fallback prompt follows a rejection with no
\* render of the menu
C18_FallbackPromptUnrendered == pc = "fallbackLine" /\ picker = "menu" /\ unrendered

\* C19: the navigation loop never terminates because of operator input or a
\* recoverable error, Enter on a menu with an empty item list included.
C19_LoopNeverTerminates == pc # "crashed"

\* C19, the divergence: enter was pressed on a menu without items and the
\* process ended on the uncaught TypeError
C19_EnterOnEmptyCrashed ==
  /\ pc = "crashed" /\ lastInput = KeyInput("menu", "enter")
  /\ Len(Tree[getCurrentMenu].items) = 0

\* C20: the Tool Executor never propagates a failure: for a child that exits
\* with 0, exits with a non-zero code, or cannot be spawned, the outcome is
\* reported, the operator is asked to acknowledge, and only after the
\* acknowledgement does control return to the menu loop.
C20_ExecutorContainsFailures ==
  /\ [](pc = "running" => (child /\ report = "running"))
  /\ [](pc = "ackReturn" => (~child /\ report \in {"completed", "exitCode", "spawnError"}))
  /\ [][pc = "running" => pc' \in {"running", "ackReturn"}]_vars
  /\ [][pc = "ackReturn" =>
          (pc' \in {"ackReturn", "loop"} /\ report' = report /\ menuStack' = menuStack)]_vars
  /\ [](lastOp = "launched" => pc = "loop")

\* C20 witness: a child ended with a non-zero exit code, the operator
\* acknowledged and control is at the top of the loop
C20_Witness == lastOp = "launched" /\ report = "exitCode" /\ pc = "loop"

\* C21: at most one child launched by the navigator is alive at any time;
\* while a child is alive the navigator is suspended in executeTool: it reads
\* no selection, dispatches no item and does not change the NavigationStack;
\* navigation resumes only after the child has closed.
C21_ForegroundChild ==
  /\ [](child => pc = "running")
  /\ [][invocations' # invocations => ~child]_vars
  /\ [][child => UNCHANGED << menuStack, lastInput, lastOp, lastChoice, invocations >>]_vars
  /\ [][(pc = "running" /\ pc' # "running") => ~child']_vars

\* C21 witness: the second tool of a session is running
C21_Witness == child /\ pc = "running" /\ invocations = 2 /\ Len(menuStack) >= 2

\* C22: with the architecture picker disabled, each selection of an
\* executable item causes exactly one Tool Executor invocation, made at the
\* dispatch, with that item's resolved path and the package root as working
\* directory, followed by a prompt on the same menu.
C22_OneInvocationPerSelection ==
  /\ []((~Settings.arch_picker /\ (Launching \/ lastOp = "launched")) =>
          /\ DispatchedType = "executable"
          /\ lastInvocation.path =
               NonEmptyPriorityPath(DispatchedItem.path, getSystemArchitecture(hostArch))
          /\ menuStack = stackBefore
          /\ (lastOp = "launched" => pc = "loop"))
  /\ [][(~Settings.arch_picker /\ invocations' # invocations) =>
          (lastOp = "none" /\ lastOp' = "dispatch" /\ invocations' = invocations + 1)]_vars
  /\ [][(~Settings.arch_picker /\ lastOp = "none" /\ lastOp' = "dispatch"
           /\ DispatchedType' = "executable") =>
          invocations' = invocations + 1]_vars

\* C22 witness: on the tree {main: [1 -> submenu gpu], gpu: [1 -> executable
\* "furmark", 2 -> back]} the choices 1, 1 gave one invocation with path
\* "furmark" and the stack is ["main", "gpu"] at the top of the loop
C22_Witness ==
  /\ config = "pkgB" /\ lastOp = "launched" /\ pc = "loop"
  /\ invocations = 1 /\ lastChoice = 1 /\ lastInvocation.path = "furmark"
  /\ menuStack = << "main", "gpu" >>

\* C23: after a successful tool-package switch from any NavigationStack the
\* stack is exactly ["main"] and the menu tree in use is the tree of the
\* package switched to.
C23_SwitchResets ==
  lastOp = "switched" =>
    /\ menuStack = << "main" >>
    /\ config = configDir
    /\ Packages[config].valid /\ Packages[config].parses
    /\ pc = "loop"

\* C23 witness: a package was switched to from a third-level menu
C23_Witness == lastOp = "switched" /\ Len(stackBefore) >= 3 /\ config = "pkgB"

\* the selection flow of a switch-package command ended with no package
\* loaded
SwitchEndedUnloaded == lastOp \in {"switchCancel", "switchFailed", "switchError"}

\* C24: when the switch-package command ends without a package being loaded
\* (selector cancelled, invalid choice, chosen path rejected), traversal
\* resumes at the same stack position: the NavigationStack and the active
\* menu tree are what they were before the command.
C24_FailedSwitchKeepsPosition ==
  /\ [](SwitchEndedUnloaded => menuStack = stackBefore)
  /\ [][(lastOp = "switch" /\ lastOp' = "switch") => UNCHANGED << menuStack, config >>]_vars
  /\ [][(lastOp = "switch" /\ SwitchEndedUnloaded') => UNCHANGED << menuStack, config >>]_vars

\* C24 witness: a chosen path was rejected while a submenu was current
C24_Witness ==
  lastOp = "switchFailed" /\ Len(menuStack) >= 2 /\ pc = "loop" /\ report = "switchFailed"

\* C25: every tool launch uses as working directory the root of the package
\* whose menu tree is being navigated; after any sequence of successful,
\* cancelled or failed package switches the package directory used for
\* launches and the menu tree in use belong to the same package.
C25_LaunchDirMatchesTree ==
  /\ toolPackageDir = config
  /\ lastInvocation # NoInvocation => lastInvocation.cwd = config

\* C25, the divergence: a tool of one package was launched in the directory
\* of a package whose menu.json did not parse
C25_LaunchedInOtherPackage ==
  /\ lastInvocation # NoInvocation /\ lastInvocation.cwd = "pkgCorrupt"
  /\ config # "pkgCorrupt"

\* the tags the Architecture Resolver is said to return
ClaimedTags == {"X86_64", "X86", "ARM64", "ARM32", "Unknown"}

\* the host strings the resolver recognizes
RecognizedHosts == {"x64", "amd64", "ia32", "arm64", "aarch64", "arm", "armv7l"}

\* executeTool was called with no architecture: the tag is the resolver's
ResolverUsed == Called /\ reqArch = Undefined

\* C26 as claimed: the Architecture Resolver returns exactly one value of
\* {X86_64, X86, ARM64, ARM32, Unknown} and returns Unknown for every host
\* string it does not recognize.
C26_TagsAsClaimed ==
  ResolverUsed =>
    /\ lastInvocation.arch \in ClaimedTags
    /\ hostArch \notin RecognizedHosts => lastInvocation.arch = "Unknown"

\* C26 amended: the resolver returns exactly one value of {X86_64, X86,
\* ARM64, ARM32, "Unknown Architecture(...)"} and returns the last one exactly
\* for the host strings it does not recognize.
C26_TagsClosed ==
  ResolverUsed =>
    /\ lastInvocation.arch \in {"X86_64", "X86", "ARM64", "ARM32", UnknownArch}
    /\ (hostArch \notin RecognizedHosts) <=> (lastInvocation.arch = UnknownArch)

\* C26 witness: on an unrecognized host a mapping without X86_64 entry was
\* resolved with the tag of unknown architectures
C26_Witness ==
  /\ ResolverUsed /\ hostArch = "riscv64" /\ lastInvocation.arch = UnknownArch
  /\ reqPath = MapPath(<< << "ARM64", "a" >> >>) /\ lastInvocation.path = "a"

\* C27: a selected id is resolved against the item list of the menu on top
\* of the NavigationStack at the moment of selection: the dispatch is that of
\* this menu's own item with the id.
C27_ResolvedInCurrentMenu ==
  Dispatched =>
    CASE DispatchedType = "submenu" ->
           menuStack = Append(stackBefore, DispatchedItem.submenu)
      [] DispatchedType = "back" ->
           menuStack = (IF Len(stackBefore) >= 2 THEN PopOne(stackBefore) ELSE stackBefore)
      [] DispatchedType = "main" -> menuStack = << "main" >>
      [] DispatchedType = "executable" ->
           /\ menuStack = stackBefore
           /\ pc # "loop" => pendingItem = DispatchedItem
      [] OTHER ->
           menuStack = stackBefore /\ report \in {"invalidSelection", "unknownType"}

\* C27 witness: the id 1, a submenu item in main, was selected in the menu
\* gpu and launched the executable item 1 of gpu
C27_Witness ==
  /\ Dispatched /\ lastChoice = 1 /\ stackBefore = << "main", "gpu" >>
  /\ pc = "running" /\ lastInvocation.path = "furmark" /\ config = "pkgA"

\* the menu `below` has a submenu-type item that leads to `above`
LeadsTo(below, above) ==
  /\ below \in MenuIds /\ Tree[below].defined
  /\ \E i \in 1..Len(Tree[below].items) :
       /\ Tree[below].items[i].type = "submenu"
       /\ Tree[below].items[i].submenu = above

\* C28: in every reachable state the NavigationStack is a path of the menu
\* graph of the loaded tree that starts at "main": every element above the
\* bottom is the submenu id of a submenu-type item of the menu directly
\* below it.
C28_StackIsPath ==
  /\ Len(menuStack) >= 1 /\ menuStack[1] = "main"
  /\ \A i \in 2..Len(menuStack) : LeadsTo(menuStack[i - 1], menuStack[i])

\* C28 witness: a third-level menu of a package switched to is current
C28_Witness == menuStack = << "main", "gpu", "deep" >> /\ mcSettings = "unset" /\ pc = "keys"

\* enter was pressed on an item of the menu and the result was taken up
EnterHandled == lastInput = KeyInput("menu", "enter") /\ lastOp # "none"

\* the id of an item of the menu was typed at the numeric prompt and taken up
IdTyped ==
  /\ NumLineHandled /\ StrictInteger(Trim(lastInput.line))
  /\ \E i \in 1..Len(ItemsBefore) : ItemsBefore[i].id = DigitsValue(Trim(lastInput.line))

\* C29: the two strategies agree on item selection: for every item id of a
\* menu, the id 0 included, typing the id in numeric mode and pressing enter
\* on the item in arrow mode both dispatch the item.
C29_StrategiesAgree ==
  /\ IdTyped => (lastOp # "reject" /\ lastChoice = DigitsValue(Trim(lastInput.line)))
  /\ EnterHandled => lastOp # "reject"

\* C29, the divergence: enter on the item with id 0 was rejected as empty
\* input
C29_EnterOnZeroRejected ==
  EnterHandled /\ lastOp = "reject" /\ lastChoice = 0 /\ report = "emptyInput"

\* C30: in the arrow-mode architecture picker 'p' is not a package switch:
\* the picker ends as a back-to-parent cancellation, the tool is not launched
\* and the NavigationStack is unchanged.
C30_PickerPCancels ==
  (lastInput = KeyInput("arch", "p") /\ pc # "picked") =>
    /\ lastOp = "archBack" /\ pc = "loop"
    /\ menuStack = stackBefore
    /\ lastInvocation = NoInvocation

\* C30, the divergence: after 'p' the architecture picker is open again
C30_PickerShownAgain ==
  lastInput = KeyInput("arch", "p") /\ pc = "keys" /\ picker = "arch" /\ lastOp = "dispatch"

\* the picker result matches no configured option: it is empty, 't', or an
\* id that no option has
NoOptionResult ==
  \/ userChoice = NullChoice
  \/ userChoice = TokChoice("t")
  \/ /\ userChoice.kind = "id"
     /\ \A i \in 1..Len(ArchOptions) : ArchOptions[i].id # userChoice.id

\* C31: the architecture of an invocation is the host tag of the
\* Architecture Resolver when the picker is disabled and the tag of the
\* option the operator chose when it is enabled; a picker result that
\* matches no configured option (empty, 't', unknown id) shows the picker
\* again and leads to no launch.
C31_ArchitectureOfInvocation ==
  /\ []((Launching /\ ~Settings.arch_picker) =>
          lastInvocation.arch = getSystemArchitecture(hostArch))
  /\ []((Launching /\ Settings.arch_picker) =>
          \E i \in 1..Len(ArchOptions) : lastInvocation.arch = ArchOptions[i].value)
  /\ [][(pc = "picked" /\ picker = "arch" /\ invocations' # invocations) =>
          /\ userChoice.kind = "id"
          /\ \E i \in 1..Len(ArchOptions) :
               /\ ArchOptions[i].id = userChoice.id
               /\ lastInvocation'.arch = ArchOptions[i].value]_vars
  /\ [][(pc = "picked" /\ picker = "arch" /\ NoOptionResult) =>
          /\ picker' = "arch" /\ pc' \in {"keys", "fallbackLine"}
          /\ UNCHANGED << invocations, lastInvocation, menuStack, child >>]_vars

\* C31 witness: on an x64 host the operator chose the ARM64 option with the
\* enter key and the tool runs with the tag ARM64
C31_Witness ==
  /\ Launching /\ Settings.arch_picker /\ pc = "running"
  /\ hostArch = "x64" /\ lastInvocation.arch = "ARM64"
  /\ lastInput = KeyInput("arch", "enter")

\* C32: at most one keystroke listener of the interactive picker is
\* registered on standard input at any time, none while no picker is waiting
\* for a key, and every keystroke is handled by the one picker that is
\* active, whatever pickers ran before (menu picker, architecture picker and
\* its re-display, package selector).
C32_OneKeyListener ==
  /\ [](listeners \in {0, 1})
  /\ [](listeners = 1 <=> pc = "keys")
  /\ [](pc = "keys" => picker \in {"menu", "arch", "pkg"})
  /\ [][(lastInput' # lastInput /\ lastInput'.kind = "key") =>
          (pc = "keys" /\ listeners = 1 /\ lastInput'.at = picker)]_vars

\* C32 witness: after a package switch made in the package selector the
\* architecture picker was shown again and one listener is registered
C32_Witness ==
  /\ pc = "keys" /\ picker = "arch" /\ listeners = 1
  /\ lastInput = KeyInput("arch", "p") /\ mcSettings = "unset"
  /\ Len(menuStack) >= 2

====
